---- MODULE Spec2Model ----
(***************************************************************************)
(* html_substring (src/src/main.ts): truncation of an HTML source to a     *)
(* number of visible characters.  One call of html_substring is modelled:  *)
(* the arguments are fixed by Init, every iteration of the main loop is    *)
(* one action (one per branch of its switch), and the code after the loop  *)
(* is the action Finalize.                                                 *)
(*                                                                         *)
(* Strings are sequences of one-character strings.  The cursor i and the   *)
(* offsets are 0-based as in the code; At(k) is chars[k].  The output      *)
(* string `result` is kept as the sequence of the pieces the code appends  *)
(* to it, each with the place that appended it (k), its text (s) and, for  *)
(* a tag, the tag name (t); the string itself is Flatten(result).          *)
(***************************************************************************)
EXTENDS Integers, Sequences, FiniteSets, TLC

MaxFrags == 3
MaxText == 5
MaxLength == 2

\* what chars[k] yields when k is outside the array
Undefined == "undefined"

\* the text of a suffix (one unit that occurs in no source)
SuffixText == <<"...">>

Letters == {"a", "b", "i", "l", "r", "p", "H", "e", "o", "w", "d"}
Digits == {"1"}

isLetter(c) == c \in Letters
isNumber(c) == c \in Digits
isWhitespace(c) == c \in {" "}

voidHtmlTags == {<<"b", "r">>}
optionalVoidHtmlTags == {<<"l", "i">>}

isVoidTag(tag) == tag \in voidHtmlTags
isOptionalVoidTag(tag) == tag \in optionalVoidHtmlTags
\* haveToHaveClosingTag with the optional closing tags forgotten
haveToHaveClosingTagButVoid(tag) == ~isVoidTag(tag)

haveToHaveClosingTag(tag) == ~(isVoidTag(tag) \/ isOptionalVoidTag(tag))

\* `</${tag}>`
ClosingOf(tag) == <<"<", "/">> \o tag \o <<">">>

Piece(k, s, t) == [k |-> k, s |-> s, t |-> t]

RECURSIVE Flatten(_)
Flatten(ps) == IF ps = <<>> THEN <<>> ELSE Head(ps).s \o Flatten(Tail(ps))

\* one "text" piece per character of a flushed word
TextPieces(w) == [n \in 1..Len(w) |-> Piece("text", <<w[n]>>, <<>>)]

\* the pieces the sources of Spec are put together from: text, an entity
\* reference, closable / void / optional-closing / self-closed tags, '<!'
Fragments ==
  { <<"a">>, <<" ">>,
    <<"&", "a", ";">>,
    <<"<", "b", ">">>, <<"<", "/", "b", ">">>,
    <<"<", "i", ">">>,
    <<"<", "b", "r", ">">>, <<"<", "l", "i", ">">>,
    <<"<", "b", "/", ">">>, <<"<", "/", "l", "i", ">">>,
    <<"<", "!">> }

\* the pieces of the sources of SpecLex: the characters the scanner looks
\* for, alone and in place
LexFragments ==
  { <<"a">>, <<" ">>,
    <<"&">>, <<";">>, <<"&", "a", ";">>,
    <<"<", "!">>, <<"<", "!", "-", "-">>, <<"-", "-", ">">>,
    <<"<", "b", ">">>, <<"<", "/", "b", ">">> }

\* the pieces of the sources of SpecLive: what begins a tag, a comment or an
\* entity reference and what ends one, each alone, so that a source may leave
\* any of them unfinished
LiveFragments ==
  { <<"a">>, <<" ">>,
    <<"<">>, <<">">>, <<"<", "/">>, <<"!">>,
    <<"<", "!", "-", "-">>, <<"-">>,
    <<"&">>, <<";">> }

\* the pieces of the sources of SpecText: no '<' and no '&'
TextFragments == { <<"a">>, <<"b">>, <<" ">>, <<"1">> }

RECURSIVE SourcesOf(_, _)
SourcesOf(F, n) ==
  IF n = 0 THEN { <<>> }
  ELSE LET S == SourcesOf(F, n - 1) IN S \cup { s \o f : s \in S, f \in F }

SuffixKinds == {"null", "string", "function"}

VARIABLES chars, length, opts, i, current, cw, cwEmpty, openedQueue,
          closeQueue, result, suffixAdded, suffixCalls, pc, ret, err

vars == <<chars, length, opts, i, current, cw, cwEmpty, openedQueue,
          closeQueue, result, suffixAdded, suffixCalls, pc, ret, err>>

args == <<chars, length, opts>>

At(k) == IF k >= 0 /\ k < Len(chars) THEN chars[k + 1] ELSE Undefined

\* chars.slice(from, to)
Slice(from, to) == SubSeq(chars, from + 1, to)

Options == [breakWords : BOOLEAN, suffix : SuffixKinds,
            shouldEncloseSuffixInTags : BOOLEAN]

\* the state at the head of the main loop, for a call with a source from S,
\* a length from L and options from O
InitWith(S, L, O) ==
  /\ chars \in S
  /\ length \in L
  /\ opts \in O
  /\ i = 0
  /\ current = 0
  /\ cw = <<>>
  /\ cwEmpty = TRUE
  /\ openedQueue = <<>>
  /\ closeQueue = <<>>
  /\ result = <<>>
  /\ suffixAdded = FALSE
  /\ suffixCalls = 0
  /\ pc = "loop"
  /\ ret = <<>>
  /\ err = <<>>

\* a string suffix differs from a suffix function only in not being called
\* (addSuffix): Init draws no suffix or a function, InitLex all three kinds
Init ==
  InitWith(SourcesOf(Fragments, MaxFrags), 0..MaxLength,
           { o \in Options : o.suffix # "string" })

InitLex == InitWith(SourcesOf(LexFragments, MaxFrags), 0..MaxLength, Options)

\* the source of the spec's example scenarios 1 and 2
HelloWorld ==
  <<"<", "p", ">", "H", "e", "l", "l", "o", " ",
    "w", "o", "r", "l", "d", "<", "/", "p", ">">>

\* a call on the example source, with every length and option setting
InitHello == InitWith({ HelloWorld }, 0..Len(HelloWorld), Options)

\* sources with unfinished tags, comments and entity references; the loops
\* do not read the suffix
InitLive ==
  InitWith(SourcesOf(LiveFragments, MaxFrags), 0..MaxLength,
           { o \in Options : o.suffix = "null" })

\* no markup, breakWords = true, no suffix
InitText ==
  InitWith(SourcesOf(TextFragments, MaxText), 0..MaxLength,
           { o \in Options : o.breakWords /\ o.suffix = "null" })

(***************************************************************************)
(* The helpers of html_substring.  Each takes the part of the state it     *)
(* reads and returns a record of the part it leaves.                       *)
(***************************************************************************)

\* openTags with the self-closed test forgotten: '<b/>' owes a closing tag
RECURSIVE openTagsPushSelfClosed(_, _, _, _)
openTagsPushSelfClosed(q, cq, res, onlyVoid) ==
  IF q = <<>> THEN [openedQueue |-> q, closeQueue |-> cq, result |-> res]
  ELSE
    LET tag == Head(q)[1]
        other == Head(q)[2]
        isVoid == isVoidTag(tag)
        isOptionalVoid == isOptionalVoidTag(tag)
        isXHTMLClosed == other # <<>> /\ other[Len(other)] = "/"
    IN IF onlyVoid /\ ~(isVoid \/ isXHTMLClosed)
       THEN [openedQueue |-> q, closeQueue |-> cq, result |-> res]
       ELSE openTagsPushSelfClosed(Tail(q),
                     IF ~(isVoid \/ isOptionalVoid)
                     THEN Append(cq, ClosingOf(tag)) ELSE cq,
                     Append(res, Piece("open", <<"<">> \o tag \o other \o <<">">>, tag)),
                     onlyVoid)

\* openTags with onlyVoid not read: every queued tag is written
RECURSIVE openTagsAll(_, _, _, _)
openTagsAll(q, cq, res, onlyVoid) ==
  IF q = <<>> THEN [openedQueue |-> q, closeQueue |-> cq, result |-> res]
  ELSE
    LET tag == Head(q)[1]
        other == Head(q)[2]
        isVoid == isVoidTag(tag)
        isOptionalVoid == isOptionalVoidTag(tag)
        isXHTMLClosed == other # <<>> /\ other[Len(other)] = "/"
    IN openTagsAll(Tail(q),
                   IF ~(isVoid \/ isOptionalVoid \/ isXHTMLClosed)
                   THEN Append(cq, ClosingOf(tag)) ELSE cq,
                   Append(res, Piece("open", <<"<">> \o tag \o other \o <<">">>, tag)),
                   onlyVoid)

\* openTags(true) that leaves a tag that is neither void nor self-closed in
\* the queue and goes on with the tags behind it
RECURSIVE openTagsSkipAhead(_, _, _, _)
openTagsSkipAhead(q, cq, res, onlyVoid) ==
  IF q = <<>> THEN [openedQueue |-> q, closeQueue |-> cq, result |-> res]
  ELSE
    LET tag == Head(q)[1]
        other == Head(q)[2]
        isVoid == isVoidTag(tag)
        isOptionalVoid == isOptionalVoidTag(tag)
        isXHTMLClosed == other # <<>> /\ other[Len(other)] = "/"
        behind == openTagsSkipAhead(Tail(q), cq, res, onlyVoid)
    IN IF onlyVoid /\ ~(isVoid \/ isXHTMLClosed)
       THEN [openedQueue |-> <<Head(q)>> \o behind.openedQueue,
             closeQueue |-> behind.closeQueue, result |-> behind.result]
       ELSE openTagsSkipAhead(Tail(q),
                     IF ~(isVoid \/ isOptionalVoid \/ isXHTMLClosed)
                     THEN Append(cq, ClosingOf(tag)) ELSE cq,
                     Append(res, Piece("open", <<"<">> \o tag \o other \o <<">">>, tag)),
                     onlyVoid)

\* openTags: write the queued opening tags, from the front of the queue
RECURSIVE openTags(_, _, _, _)
openTags(q, cq, res, onlyVoid) ==
  IF q = <<>> THEN [openedQueue |-> q, closeQueue |-> cq, result |-> res]
  ELSE
    LET tag == Head(q)[1]
        other == Head(q)[2]
        isVoid == isVoidTag(tag)
        isOptionalVoid == isOptionalVoidTag(tag)
        isXHTMLClosed == other # <<>> /\ other[Len(other)] = "/"
    IN IF onlyVoid /\ ~(isVoid \/ isXHTMLClosed)
       THEN [openedQueue |-> q, closeQueue |-> cq, result |-> res]
       ELSE openTags(Tail(q),
                     IF ~(isVoid \/ isOptionalVoid \/ isXHTMLClosed)
                     THEN Append(cq, ClosingOf(tag)) ELSE cq,
                     Append(res, Piece("open", <<"<">> \o tag \o other \o <<">">>, tag)),
                     onlyVoid)

\* addSuffix with the latch not read
addSuffixNoLatch(res, added, calls) ==
  IF opts.suffix # "null"
  THEN [result |-> Append(res, Piece("suffix", SuffixText, <<>>)),
        suffixAdded |-> TRUE,
        suffixCalls |-> IF opts.suffix = "function" THEN calls + 1 ELSE calls]
  ELSE [result |-> res, suffixAdded |-> added, suffixCalls |-> calls]

\* addSuffix: the suffix once, behind the latch suffixAdded
addSuffix(res, added, calls) ==
  IF ~added /\ opts.suffix # "null"
  THEN [result |-> Append(res, Piece("suffix", SuffixText, <<>>)),
        suffixAdded |-> TRUE,
        suffixCalls |-> IF opts.suffix = "function" THEN calls + 1 ELSE calls]
  ELSE [result |-> res, suffixAdded |-> added, suffixCalls |-> calls]

\* flushWordBreak with the budget forgotten: the whole pending word is written
flushWordBreakNoBudget(w, cur, q, cq, res) ==
  IF Len(w) = 0
  THEN [ok |-> TRUE, cw |-> w, current |-> cur,
        openedQueue |-> q, closeQueue |-> cq, result |-> res]
  ELSE
    LET o == openTags(q, cq, res, FALSE)
    IN [ok |-> TRUE, cw |-> <<>>, current |-> cur + Len(w),
        openedQueue |-> o.openedQueue, closeQueue |-> o.closeQueue,
        result |-> o.result \o TextPieces(w)]

\* flushWord with breakWords = true
flushWordBreak(w, cur, q, cq, res) ==
  IF Len(w) = 0
  THEN [ok |-> TRUE, cw |-> w, current |-> cur,
        openedQueue |-> q, closeQueue |-> cq, result |-> res]
  ELSE
    LET room == length - cur
        least == IF room < Len(w) THEN room ELSE Len(w)
        addable == IF least > 0 THEN least ELSE 0
        o == openTags(q, cq, res, FALSE)
    IN IF addable = 0
       THEN [ok |-> FALSE, cw |-> w, current |-> cur,
             openedQueue |-> q, closeQueue |-> cq, result |-> res]
       ELSE [ok |-> TRUE,
             cw |-> SubSeq(w, addable + 1, Len(w)),
             current |-> cur + addable,
             openedQueue |-> o.openedQueue, closeQueue |-> o.closeQueue,
             result |-> o.result \o TextPieces(SubSeq(w, 1, addable))]

\* flushWord with breakWords = false
flushWordWhole(w, cur, q, cq, res) ==
  IF Len(w) = 0
  THEN [ok |-> TRUE, cw |-> w, current |-> cur,
        openedQueue |-> q, closeQueue |-> cq, result |-> res]
  ELSE
    LET o == openTags(q, cq, res, FALSE)
    IN IF cur + Len(w) <= length
       THEN [ok |-> TRUE, cw |-> <<>>, current |-> cur + Len(w),
             openedQueue |-> o.openedQueue, closeQueue |-> o.closeQueue,
             result |-> o.result \o TextPieces(w)]
       ELSE [ok |-> FALSE, cw |-> w, current |-> cur,
             openedQueue |-> q, closeQueue |-> cq, result |-> res]

\* flushWord with the two policies taken the wrong way round
flushWordInverted(w, cur, q, cq, res) ==
  IF opts.breakWords THEN flushWordWhole(w, cur, q, cq, res)
  ELSE flushWordBreak(w, cur, q, cq, res)

flushWord(w, cur, q, cq, res) ==
  IF opts.breakWords THEN flushWordBreak(w, cur, q, cq, res)
  ELSE flushWordWhole(w, cur, q, cq, res)

\* openTag, first loop: the tag name
RECURSIVE ScanName(_, _, _)
ScanName(k, tag, c) ==
  IF k < Len(chars)
  THEN IF ~isLetter(At(k)) /\ ~isNumber(At(k))
       THEN [i |-> k + 1, tag |-> tag, c |-> At(k)]
       ELSE ScanName(k + 1, Append(tag, At(k)), At(k))
  ELSE [i |-> k, tag |-> tag, c |-> c]

\* openTag, second loop: the rest of the tag up to '>'
RECURSIVE ScanOther(_, _, _)
ScanOther(k, other, c) ==
  IF k < Len(chars)
  THEN IF At(k) = ">"
       THEN [i |-> k + 1, other |-> other, c |-> At(k)]
       ELSE ScanOther(k + 1, Append(other, At(k)), At(k))
  ELSE [i |-> k, other |-> other, c |-> c]

\* openTag that rewinds the cursor onto the '<' itself
openTagOntoLt(tagStart, w) ==
  LET n == ScanName(tagStart, <<>>, "")
      o == IF Len(n.tag) > 0 /\ n.i < Len(chars) /\ n.c # ">"
           THEN ScanOther(n.i, <<n.c>>, n.c)
           ELSE [i |-> n.i, other |-> <<>>, c |-> n.c]
  IN IF Len(n.tag) = 0 \/ o.c # ">"
     THEN [ok |-> FALSE, i |-> tagStart - 1, cw |-> Append(w, "<"),
           tag |-> <<>>, other |-> <<>>]
     ELSE [ok |-> TRUE, i |-> o.i, cw |-> w, tag |-> n.tag, other |-> o.other]

\* openTag: [tag, other], or null with '<' pushed on cw and the cursor rewound
openTag(tagStart, w) ==
  LET n == ScanName(tagStart, <<>>, "")
      o == IF Len(n.tag) > 0 /\ n.i < Len(chars) /\ n.c # ">"
           THEN ScanOther(n.i, <<n.c>>, n.c)
           ELSE [i |-> n.i, other |-> <<>>, c |-> n.c]
  IN IF Len(n.tag) = 0 \/ o.c # ">"
     THEN [ok |-> FALSE, i |-> tagStart, cw |-> Append(w, "<"),
           tag |-> <<>>, other |-> <<>>]
     ELSE [ok |-> TRUE, i |-> o.i, cw |-> w, tag |-> n.tag, other |-> o.other]

\* closeTag: everything up to the next '>'
RECURSIVE closeTag(_, _)
closeTag(k, tag) ==
  IF k < Len(chars)
  THEN IF At(k) = ">" THEN [i |-> k + 1, tag |-> tag]
       ELSE closeTag(k + 1, Append(tag, At(k)))
  ELSE [i |-> k, tag |-> tag]

\* the pop loop with success when the stack runs out
RECURSIVE PopUntilLenient(_, _)
PopUntilLenient(cq, closing) ==
  IF Len(cq) = 0 THEN [success |-> TRUE, closeQueue |-> cq]
  ELSE IF cq[Len(cq)] = closing
       THEN [success |-> TRUE, closeQueue |-> SubSeq(cq, 1, Len(cq) - 1)]
       ELSE PopUntilLenient(SubSeq(cq, 1, Len(cq) - 1), closing)

\* the pop loop of the closing-tag branch
RECURSIVE PopUntil(_, _)
PopUntil(cq, closing) ==
  IF Len(cq) = 0 THEN [success |-> FALSE, closeQueue |-> cq]
  ELSE IF cq[Len(cq)] = closing
       THEN [success |-> TRUE, closeQueue |-> SubSeq(cq, 1, Len(cq) - 1)]
       ELSE PopUntil(SubSeq(cq, 1, Len(cq) - 1), closing)

\* the comment loop; past the end of chars every read is undefined and the
\* loop cannot leave (hangs)
RECURSIVE CommentLoop(_, _, _)
CommentLoop(k, cur, res) ==
  IF At(k) # "-" /\ At(k + 1) # "-" /\ At(k + 2) # ">"
  THEN IF k >= Len(chars)
       THEN [i |-> k, current |-> cur, result |-> res, hangs |-> TRUE]
       ELSE CommentLoop(k + 1, cur + 1, Append(res, Piece("comment", <<At(k)>>, <<>>)))
  ELSE [i |-> k, current |-> cur, result |-> res, hangs |-> FALSE]

\* the loop of case '&' with the slice one short: the ';' is left out
RECURSIVE ScanEntityShort(_, _)
ScanEntityShort(k, offset) ==
  IF k < Len(chars)
  THEN IF isWhitespace(At(k)) THEN [i |-> offset + 1, rest |-> <<>>]
       ELSE IF At(k) = ";" THEN [i |-> k + 1, rest |-> Slice(offset + 1, k)]
       ELSE ScanEntityShort(k + 1, offset)
  ELSE [i |-> k, rest |-> <<>>]

\* the loop of case '&'
RECURSIVE ScanEntity(_, _)
ScanEntity(k, offset) ==
  IF k < Len(chars)
  THEN IF isWhitespace(At(k)) THEN [i |-> offset + 1, rest |-> <<>>]
       ELSE IF At(k) = ";" THEN [i |-> k + 1, rest |-> Slice(offset + 1, k + 1)]
       ELSE ScanEntity(k + 1, offset)
  ELSE [i |-> k, rest |-> <<>>]

(***************************************************************************)
(* The main loop: one action per iteration, by the branch it takes.        *)
(***************************************************************************)

\* the condition of the while loop
InLoop == pc = "loop" /\ current < length /\ i < Len(chars)

\* default: ordinary text
Text ==
  /\ InLoop
  /\ At(i) \notin {"<", "&"}
  /\ LET c == At(i)
         boundary == ~isLetter(c) /\ ~cwEmpty
         f == IF boundary
              THEN flushWord(cw, current, openedQueue, closeQueue, result)
              ELSE [ok |-> TRUE, cw |-> cw, current |-> current,
                    openedQueue |-> openedQueue, closeQueue |-> closeQueue,
                    result |-> result]
     IN /\ i' = i + 1
        /\ current' = f.current
        /\ openedQueue' = f.openedQueue
        /\ closeQueue' = f.closeQueue
        /\ result' = f.result
        /\ IF f.ok
           THEN /\ cwEmpty' = IF ~isWhitespace(c) THEN FALSE
                              ELSE IF boundary THEN TRUE ELSE cwEmpty
                /\ cw' = Append(f.cw, c)
                /\ pc' = pc
           ELSE /\ cwEmpty' = TRUE
                /\ cw' = f.cw
                /\ pc' = "break"
  /\ UNCHANGED <<args, suffixAdded, suffixCalls, ret, err>>

\* case '&'
Amp ==
  /\ InLoop
  /\ At(i) = "&"
  /\ LET offset == i
         e == ScanEntity(i + 1, offset)
     IN /\ result' = IF e.rest = <<>>
                     THEN Append(result, Piece("amp", <<"&">>, <<>>))
                     ELSE result \o << Piece("amp", <<"&">>, <<>>),
                                       Piece("entity", e.rest, <<>>) >>
        /\ current' = current + 1
        /\ i' = e.i
  /\ UNCHANGED <<args, cw, cwEmpty, openedQueue, closeQueue, suffixAdded,
                 suffixCalls, pc, ret, err>>

\* case '<', flushWord fails: break mainloop
LtBreak ==
  /\ InLoop
  /\ At(i) = "<"
  /\ ~flushWord(cw, current, openedQueue, closeQueue, result).ok
  /\ i' = i + 1
  /\ pc' = "break"
  /\ UNCHANGED <<args, current, cw, cwEmpty, openedQueue, closeQueue, result,
                 suffixAdded, suffixCalls, ret, err>>

\* case '<' then '!': a comment, or a literal '<'
LtBang ==
  /\ InLoop
  /\ At(i) = "<"
  /\ At(i + 1) = "!"
  /\ LET f == flushWord(cw, current, openedQueue, closeQueue, result)
         k == i + 1
         l == CommentLoop(k + 2, f.current, f.result)
     IN /\ f.ok
        /\ cw' = f.cw
        /\ openedQueue' = f.openedQueue
        /\ closeQueue' = f.closeQueue
        /\ IF At(k + 1) = "-" /\ At(k + 2) = "-"
           THEN /\ i' = l.i + 2
                /\ current' = l.current
                /\ result' = l.result
                /\ pc' = IF l.hangs THEN "hang" ELSE pc
           ELSE /\ i' = k
                /\ current' = f.current + 1
                /\ result' = Append(f.result, Piece("lt", <<"<">>, <<>>))
                /\ pc' = pc
  /\ UNCHANGED <<args, cwEmpty, suffixAdded, suffixCalls, ret, err>>

\* case '<' then '/': a closing tag
LtClose ==
  /\ InLoop
  /\ At(i) = "<"
  /\ At(i + 1) = "/"
  /\ LET f == flushWord(cw, current, openedQueue, closeQueue, result)
         o == openTags(f.openedQueue, f.closeQueue, f.result, FALSE)
         k == i + 1
         offset == k - 1
         t == closeTag(k + 1, <<>>)
         p == IF haveToHaveClosingTag(t.tag)
              THEN PopUntil(o.closeQueue, ClosingOf(t.tag))
              ELSE [success |-> FALSE, closeQueue |-> o.closeQueue]
         s == IF f.current >= length /\ opts.shouldEncloseSuffixInTags
              THEN addSuffix(o.result, suffixAdded, suffixCalls)
              ELSE [result |-> o.result, suffixAdded |-> suffixAdded,
                    suffixCalls |-> suffixCalls]
     IN /\ f.ok
        /\ cw' = f.cw
        /\ current' = f.current
        /\ openedQueue' = o.openedQueue
        /\ closeQueue' = p.closeQueue
        /\ i' = t.i
        /\ IF haveToHaveClosingTag(t.tag) /\ ~p.success
           THEN /\ pc' = "error"
                /\ err' = <<t.tag, offset>>
                /\ result' = o.result
                /\ UNCHANGED <<suffixAdded, suffixCalls>>
           ELSE /\ pc' = pc
                /\ err' = err
                /\ result' = Append(s.result, Piece("close", ClosingOf(t.tag), t.tag))
                /\ suffixAdded' = s.suffixAdded
                /\ suffixCalls' = s.suffixCalls
  /\ UNCHANGED <<args, cwEmpty, ret>>

\* case '<', default: an opening tag
LtOpen ==
  /\ InLoop
  /\ At(i) = "<"
  /\ At(i + 1) \notin {"!", "/"}
  /\ LET f == flushWord(cw, current, openedQueue, closeQueue, result)
         t == openTag(i + 1, f.cw)
     IN /\ f.ok
        /\ current' = f.current
        /\ closeQueue' = f.closeQueue
        /\ result' = f.result
        /\ cw' = t.cw
        /\ i' = t.i
        /\ openedQueue' = IF t.ok THEN Append(f.openedQueue, <<t.tag, t.other>>)
                          ELSE f.openedQueue
  /\ UNCHANGED <<args, cwEmpty, suffixAdded, suffixCalls, pc, ret, err>>

\* [...closeQueue]: one closing tag per entry of the reversed stack
ClosingTags(cq) ==
  [n \in 1..Len(cq) |-> Piece("autoclose", cq[n], SubSeq(cq[n], 3, Len(cq[n]) - 1))]

\* getResultWithSuffixAfterClosingTags with the suffix put before the
\* closing tags
getResultWithSuffixAfterClosingTagsInside(res, cq, flushed) ==
  LET s == IF flushed
           THEN [result |-> res, suffixAdded |-> suffixAdded,
                 suffixCalls |-> suffixCalls]
           ELSE addSuffix(res, suffixAdded, suffixCalls)
  IN [result |-> s.result \o ClosingTags(cq),
      suffixAdded |-> s.suffixAdded, suffixCalls |-> s.suffixCalls]

getResultWithSuffixAfterClosingTags(res, cq, flushed) ==
  LET resultWithoutSuffix == res \o ClosingTags(cq)
  IN IF flushed
     THEN [result |-> resultWithoutSuffix, suffixAdded |-> suffixAdded,
           suffixCalls |-> suffixCalls]
     ELSE addSuffix(resultWithoutSuffix, suffixAdded, suffixCalls)

getResultWithSuffixBeforeClosingTags(res, cq, flushed) ==
  LET resultWithSuffix ==
        IF flushed
        THEN [result |-> res, suffixAdded |-> suffixAdded,
              suffixCalls |-> suffixCalls]
        ELSE addSuffix(res, suffixAdded, suffixCalls)
  IN [result |-> resultWithSuffix.result \o ClosingTags(cq),
      suffixAdded |-> resultWithSuffix.suffixAdded,
      suffixCalls |-> resultWithSuffix.suffixCalls]

\* after the loop: the void tags still queued, the last word, the closing
\* tags and the suffix
Finalize ==
  /\ pc = "break" \/ (pc = "loop" /\ ~(current < length /\ i < Len(chars)))
  /\ LET o == openTags(openedQueue, closeQueue, result, TRUE)
         f == flushWord(cw, current, o.openedQueue, o.closeQueue, o.result)
         flushed == f.ok
         reversed == [n \in 1..Len(f.closeQueue) |->
                        f.closeQueue[Len(f.closeQueue) + 1 - n]]
         r == IF opts.shouldEncloseSuffixInTags
              THEN getResultWithSuffixBeforeClosingTags(f.result, reversed, flushed)
              ELSE getResultWithSuffixAfterClosingTags(f.result, reversed, flushed)
     IN /\ cw' = f.cw
        /\ current' = f.current
        /\ openedQueue' = f.openedQueue
        /\ closeQueue' = reversed
        /\ result' = f.result
        /\ ret' = r.result
        /\ suffixAdded' = r.suffixAdded
        /\ suffixCalls' = r.suffixCalls
  /\ pc' = "done"
  /\ UNCHANGED <<args, i, cwEmpty, err>>

Next == Text \/ Amp \/ LtBreak \/ LtBang \/ LtClose \/ LtOpen \/ Finalize

Spec == Init /\ [][Next]_vars

SpecLex == InitLex /\ [][Next]_vars

\* a source without '<' and '&' takes the default branch only
NextText == Text \/ Finalize

SpecText == InitText /\ [][NextText]_vars

\* a source without '&' and '<!' takes neither of their branches
NextHello == Text \/ LtBreak \/ LtClose \/ LtOpen \/ Finalize

SpecHello == InitHello /\ [][NextHello]_vars

\* html_substring runs to its end without waiting for anything: a step that
\* can be taken is taken
SpecLive == InitLive /\ [][Next]_vars /\ WF_vars(Next)

(***************************************************************************)
(* What the claims speak of: the visible units of a source and of an       *)
(* output, tags that need closing, the number of suffixes in an output.    *)
(***************************************************************************)

IsPrefix(s, u) == Len(s) <= Len(u) /\ SubSeq(u, 1, Len(s)) = s

Min(a, b) == IF a < b THEN a ELSE b

\* the number of pieces of kind k in an output
RECURSIVE CountKind(_, _)
CountKind(ps, k) ==
  IF ps = <<>> THEN 0
  ELSE (IF Head(ps).k = k THEN 1 ELSE 0) + CountKind(Tail(ps), k)

SuffixCount(ps) == CountKind(ps, "suffix")

\* the output of the call so far: the returned string once it has returned
Output == IF pc = "done" THEN ret ELSE result

\* an opening tag in the output that requires a closing tag
IsClosableOpen(p) ==
  /\ p.k = "open"
  /\ p.t \notin (voidHtmlTags \cup optionalVoidHtmlTags)
  /\ p.s[Len(p.s) - 1] # "/"

\* a closing tag in the output of an element that requires one
IsClosableClose(p) ==
  /\ p.k \in {"close", "autoclose"}
  /\ p.t \notin (voidHtmlTags \cup optionalVoidHtmlTags)

\* the visible units of an output, in order: text characters, a literal '<'
\* or '&', whole entity references
RECURSIVE OutUnits(_)
OutUnits(ps) ==
  IF ps = <<>> THEN <<>>
  ELSE IF Head(ps).k = "amp" /\ Len(ps) > 1 /\ ps[2].k = "entity"
       THEN <<Head(ps).s \o ps[2].s>> \o OutUnits(Tail(Tail(ps)))
       ELSE IF Head(ps).k \in {"text", "amp", "lt", "comment"}
            THEN <<Head(ps).s>> \o OutUnits(Tail(ps))
            ELSE OutUnits(Tail(ps))

\* the first position >= n of s that holds c, 0 if there is none
FirstAt(s, c, n) ==
  IF \E m \in n..Len(s) : s[m] = c
  THEN CHOOSE m \in n..Len(s) : s[m] = c /\ \A l \in n..(m - 1) : s[l] # c
  ELSE 0

\* the visible units of a source put together from Fragments, in order: a
\* tag '<'...'>' is none, '&'...';' is one, the '<' of '<!' and any other
\* character is one
RECURSIVE SourceUnits(_)
SourceUnits(s) ==
  IF s = <<>> THEN <<>>
  ELSE IF s[1] = "<" /\ Len(s) > 1 /\ s[2] # "!" /\ FirstAt(s, ">", 2) # 0
       THEN SourceUnits(SubSeq(s, FirstAt(s, ">", 2) + 1, Len(s)))
       ELSE IF s[1] = "&" /\ FirstAt(s, ";", 2) # 0
            THEN <<SubSeq(s, 1, FirstAt(s, ";", 2))>>
                 \o SourceUnits(SubSeq(s, FirstAt(s, ";", 2) + 1, Len(s)))
            ELSE <<<<s[1]>>>> \o SourceUnits(Tail(s))

\* tags of an output nest: a closing tag of an element that requires one
\* closes the innermost open element, and none is left open at the end
RECURSIVE Nests(_, _)
Nests(ps, open) ==
  IF ps = <<>> THEN open = <<>>
  ELSE IF IsClosableOpen(Head(ps)) THEN Nests(Tail(ps), Append(open, Head(ps).t))
       ELSE IF IsClosableClose(Head(ps))
            THEN /\ open # <<>>
                 /\ open[Len(open)] = Head(ps).t
                 /\ Nests(Tail(ps), SubSeq(open, 1, Len(open) - 1))
            ELSE Nests(Tail(ps), open)

Balanced(ps) == Nests(ps, <<>>)

(***************************************************************************)
(* The claims.                                                             *)
(***************************************************************************)

\* C1: the visible units of the output (the suffix aside) never number more
\* than length: current <= length in every state of the scan, whichever
\* branch counts.
C1_VisibleWithinLength ==
  /\ current <= length
  /\ Len(OutUnits(Output)) <= length

\* C2: when html_substring returns, every opening tag of the output that
\* requires closing has its closing tag later in the output, and the tags
\* nest.
C2_OutputBalanced == pc = "done" => Balanced(ret)

\* C3: for a source without '<' and '&', breakWords = true and no suffix, the
\* returned string is the first min(length, sourceLength) characters of the
\* source.
C3_PlainPrefix ==
  pc = "done" => Flatten(ret) = SubSeq(chars, 1, Min(length, Len(chars)))

\* C3 witness: a call that has returned a source cut inside its text
C3_Witness ==
  /\ pc = "done"
  /\ length > 0
  /\ Len(chars) > length + 1
  /\ Len(Flatten(ret)) = length

\* C4: with a suffix configured and a source of more visible units than
\* length, the returned string holds the suffix exactly once.
C4_SuffixOnceWhenTruncated ==
  (pc = "done" /\ opts.suffix # "null" /\ Len(SourceUnits(chars)) > length)
    => SuffixCount(ret) = 1

\* the entity reference that begins at offset k: '&', then characters that
\* are not whitespace, up to and including the first ';'
EntityEnds(k) ==
  { j \in (k + 1)..(Len(chars) - 1) :
      /\ At(j) = ";"
      /\ \A m \in (k + 1)..(j - 1) : ~isWhitespace(At(m)) /\ At(m) # ";" }

IsEntityAt(k) == At(k) = "&" /\ EntityEnds(k) # {}

EntityAt(k) == Slice(k, (CHOOSE j \in EntityEnds(k) : TRUE) + 1)

\* C5: an entity reference the scan reaches is written whole, in one piece
\* of output that is never taken back, and counts as one visible unit
\* whatever its length.
C5_EntityWhole ==
  [][ /\ (InLoop /\ IsEntityAt(i)) =>
           /\ Flatten(result') = Flatten(result) \o EntityAt(i)
           /\ current' = current + 1
           /\ i' = i + Len(EntityAt(i))
      /\ IsPrefix(result, result')
      /\ pc' = "done" => IsPrefix(result', ret') ]_vars

\* C5 witness: an entity reference of more than three characters has been
\* written and the call has returned
C5_Witness ==
  /\ pc = "done"
  /\ \E n \in 1..Len(ret) : ret[n].k = "entity" /\ Len(ret[n].s) >= 3

\* C6: the visible units of the returned string are, in order, the first
\* visible units of the source.
C6_VisibleInSourceOrder ==
  pc = "done" => IsPrefix(OutUnits(ret), SourceUnits(chars))

\* the text pieces a step appends to result
RECURSIVE TextOf(_)
TextOf(ps) ==
  IF ps = <<>> THEN <<>>
  ELSE (IF Head(ps).k = "text" THEN Head(ps).s ELSE <<>>) \o TextOf(Tail(ps))

TextAdded == TextOf(SubSeq(result', Len(result) + 1, Len(result')))

\* C7: with breakWords = false, a word is written in full or not at all (a
\* step that writes text writes the whole pending word, and the word ends
\* where the scan stands), and once the pending word does not fit
\* (current + wordLength > length) no later text is written.
C7_WholeWordsOnly ==
  [][ ~opts.breakWords =>
        /\ TextAdded # <<>> => (TextAdded = cw /\ ~isLetter(At(i)))
        /\ (cw # <<>> /\ current + Len(cw) > length) =>
              /\ OutUnits(result') = OutUnits(result)
              /\ pc' = "done" => OutUnits(ret') = OutUnits(result) ]_vars

\* the closing tags owed when a closing tag is processed: the close-tag stack
\* and the closable tags still in the open-tag queue
Owed ==
  { closeQueue[n] : n \in 1..Len(closeQueue) } \cup
  { ClosingOf(openedQueue[n][1]) : n \in
      { m \in 1..Len(openedQueue) :
          /\ openedQueue[m][1] \notin (voidHtmlTags \cup optionalVoidHtmlTags)
          /\ ~(openedQueue[m][2] # <<>>
               /\ openedQueue[m][2][Len(openedQueue[m][2])] = "/") } }

\* the name of the closing tag whose '<' is at offset k
CloseNameAt(k) ==
  IF FirstAt(chars, ">", k + 3) = 0 THEN Slice(k + 2, Len(chars))
  ELSE Slice(k + 2, FirstAt(chars, ">", k + 3) - 1)

\* the pending word can be flushed, so that the scan goes on into the tag
WordFits ==
  \/ cw = <<>>
  \/ opts.breakWords /\ current < length
  \/ ~opts.breakWords /\ current + Len(cw) <= length

\* the scan stands at '</' and enters the closing-tag branch
AtClosingTag == InLoop /\ At(i) = "<" /\ At(i + 1) = "/" /\ WordFits

\* C8: a closing tag of an element that requires one, with no </name> owed,
\* raises the error with the tag name and the offset of its '<'; nothing is
\* returned and the call is over.
C8_MismatchRaises ==
  [][ /\ ( /\ AtClosingTag
           /\ CloseNameAt(i) \notin (voidHtmlTags \cup optionalVoidHtmlTags)
           /\ ClosingOf(CloseNameAt(i)) \notin Owed )
         => (pc' = "error" /\ err' = <<CloseNameAt(i), i>> /\ ret' = <<>>)
      /\ pc = "error" => FALSE ]_vars

\* C8 witness: the error raised at a closing tag behind an opening tag
\* already written, which is not returned
C8_Witness ==
  /\ pc = "error"
  /\ err[2] > 0
  /\ result # <<>>
  /\ ret = <<>>

\* the number of entries e of a close-tag stack
CountEntries(cq, e) == Cardinality({ n \in 1..Len(cq) : cq[n] = e })

\* the number of opening tags written that owe the closing tag e
CountOwing(ps, e) ==
  Cardinality({ n \in 1..Len(ps) : IsClosableOpen(ps[n]) /\ ClosingOf(ps[n].t) = e })

\* the number of closing tags e appended at finalization
CountSynthesized(ps, e) ==
  Cardinality({ n \in 1..Len(ps) : ps[n].k = "autoclose" /\ ps[n].s = e })

\* C9: void, self-closed and li opening tags push nothing on the close-tag
\* stack: every entry of the stack, and every closing tag appended at
\* finalization, is owed by a closable opening tag that was written.
C9_NoClosingForVoid ==
  /\ \A n \in 1..Len(closeQueue) :
       CountEntries(closeQueue, closeQueue[n]) <= CountOwing(result, closeQueue[n])
  /\ \A n \in 1..Len(ret) :
       ret[n].k = "autoclose" =>
         CountSynthesized(ret, ret[n].s) <= CountOwing(ret, ret[n].s)

\* C9 witness: a returned string with a void, self-closed or li opening tag
\* and a closing tag appended at finalization
C9_Witness ==
  /\ pc = "done"
  /\ \E n \in 1..Len(ret) : ret[n].k = "open" /\ ~IsClosableOpen(ret[n])
  /\ \E n \in 1..Len(ret) : ret[n].k = "autoclose"

\* C10: the suffix is appended at most once and a suffix function is called
\* at most once; the latch suffixAdded is set exactly when the suffix is in
\* the output.
C10_SuffixAtMostOnce ==
  /\ SuffixCount(result) <= 1
  /\ SuffixCount(Output) <= 1
  /\ suffixCalls <= 1
  /\ suffixAdded <=> SuffixCount(Output) = 1
  /\ opts.suffix = "function" => suffixCalls = SuffixCount(Output)
  /\ opts.suffix # "function" => suffixCalls = 0

\* C10 witness: the suffix went in at a closing tag and finalization, its
\* last word unflushed, called addSuffix again
C10_Witness ==
  /\ pc = "done"
  /\ opts.suffix = "function"
  /\ SuffixCount(result) = 1
  /\ cw # <<>>
  /\ current >= length

\* the options a bare string gives: the defaults with the string as suffix
BareString ==
  [breakWords |-> TRUE, suffix |-> "string", shouldEncloseSuffixInTags |-> FALSE]

\* html_substring("<p>Hello world</p>", 7, "...") has returned
HelloSeven ==
  pc = "done" /\ chars = HelloWorld /\ length = 7 /\ opts = BareString

\* C11 as stated: html_substring("<p>Hello world</p>", 7, "...") returns
\* "<p>Hello...</p>", the suffix right after the text and the closing tag
\* behind it.
C11_HelloSuffixInside ==
  HelloSeven =>
    Flatten(ret) = <<"<", "p", ">", "H", "e", "l", "l", "o">> \o SuffixText
                   \o <<"<", "/", "p", ">">>

\* C11 as amended: html_substring("<p>Hello world</p>", 7, "...") returns
\* "<p>Hello w</p>...": with the default options the word is cut where the
\* budget ends and the suffix comes behind the closing tag.
C11_HelloCutThenSuffix ==
  HelloSeven =>
    Flatten(ret) = <<"<", "p", ">", "H", "e", "l", "l", "o", " ", "w",
                     "<", "/", "p", ">">> \o SuffixText

\* C11 witness: the call of the example has returned, with a suffix
C11_Witness == HelloSeven /\ SuffixCount(ret) = 1

\* the pieces a step appends to result
NewPieces == SubSeq(result', Len(result) + 1, Len(result'))

\* a piece of output that is a visible unit, or part of one
IsVisible(p) == p.k \in {"text", "amp", "entity", "lt", "comment"}

\* C12: a step that appends a visible unit (text, an entity reference, a
\* literal '<') to the result first writes every opening tag of the
\* open-tag queue, in the order of the queue.
C12_QueueBeforeVisible ==
  [][ (\E n \in 1..Len(NewPieces) : IsVisible(NewPieces[n])) =>
        /\ Len(NewPieces) >= Len(openedQueue)
        /\ \A n \in 1..Len(openedQueue) :
             /\ NewPieces[n].k = "open"
             /\ NewPieces[n].t = openedQueue[n][1] ]_vars

\* the offsets at which a terminator '-->' stands behind the '<!--' at offset k
CommentEnds(k) ==
  { e \in (k + 4)..(Len(chars) - 3) :
      At(e) = "-" /\ At(e + 1) = "-" /\ At(e + 2) = ">" }

\* the first of them: where the comment that begins at offset k ends
CommentEnd(k) ==
  CHOOSE e \in CommentEnds(k) : \A d \in CommentEnds(k) : e <= d

\* the scan stands at '<!--', no word pending, and the comment has a terminator
AtComment ==
  /\ InLoop
  /\ cw = <<>>
  /\ At(i) = "<" /\ At(i + 1) = "!" /\ At(i + 2) = "-" /\ At(i + 3) = "-"
  /\ CommentEnds(i) # {}

\* C13: at '<!--' the comment is consumed up to its terminator '-->': the
\* characters of the comment body are copied into the result, each counted as
\* one visible character, the terminator is not copied, and the scan resumes
\* right after the '-->'.
C13_CommentConsumed ==
  [][ AtComment =>
        /\ Flatten(result') = Flatten(result) \o Slice(i + 4, CommentEnd(i))
        /\ current' = current + (CommentEnd(i) - (i + 4))
        /\ i' = CommentEnd(i) + 3 ]_vars

\* C14: when nothing is cut off (the source has no more visible units than
\* length) the returned string holds no suffix, whatever the options, also
\* with shouldEncloseSuffixInTags and the budget reached exactly at a closing
\* tag.
C14_NoSuffixUntruncated ==
  (pc = "done" /\ Len(SourceUnits(chars)) <= length) => SuffixCount(ret) = 0

\* the positions of the pieces of kind k in an output
IndicesOf(ps, k) == { n \in 1..Len(ps) : ps[n].k = k }

\* C15: with shouldEncloseSuffixInTags = false a suffix in the returned
\* string is its last piece, behind every closing tag appended at
\* finalization; with shouldEncloseSuffixInTags = true a suffix in the
\* returned string comes before every closing tag appended at finalization.
C15_SuffixPlacement ==
  pc = "done" =>
    /\ ~opts.shouldEncloseSuffixInTags =>
          \A n \in IndicesOf(ret, "suffix") : n = Len(ret)
    /\ opts.shouldEncloseSuffixInTags =>
          \A n \in IndicesOf(ret, "suffix") :
            \A m \in IndicesOf(ret, "autoclose") : n < m

\* C15 witness: a returned string with a closing tag appended at
\* finalization and the suffix behind it
C15_Witness ==
  /\ pc = "done"
  /\ ~opts.shouldEncloseSuffixInTags
  /\ IndicesOf(ret, "autoclose") # {}
  /\ IndicesOf(ret, "suffix") # {}

\* C15 witness, enclosed: the suffix appended at finalization in front of a
\* closing tag
C15_WitnessEnclosed ==
  /\ pc = "done"
  /\ opts.shouldEncloseSuffixInTags
  /\ SuffixCount(result) = 0
  /\ IndicesOf(ret, "autoclose") # {}
  /\ IndicesOf(ret, "suffix") # {}

\* the opening tags of a source put together from Fragments, in order, each
\* as it is written: '<', not followed by '!' or '/', up to the next '>'
\* (one that is cut off by the end of the scan is none)
RECURSIVE OpeningTagsOf(_)
OpeningTagsOf(s) ==
  IF s = <<>> THEN <<>>
  ELSE IF s[1] = "<" /\ Len(s) > 1 /\ s[2] # "!" /\ FirstAt(s, ">", 2) # 0
       THEN (IF s[2] # "/" THEN <<SubSeq(s, 1, FirstAt(s, ">", 2))>> ELSE <<>>)
            \o OpeningTagsOf(SubSeq(s, FirstAt(s, ">", 2) + 1, Len(s)))
       ELSE OpeningTagsOf(Tail(s))

\* the opening tags of an output, in order
RECURSIVE OpeningTagsIn(_)
OpeningTagsIn(ps) ==
  IF ps = <<>> THEN <<>>
  ELSE (IF Head(ps).k = "open" THEN <<Head(ps).s>> ELSE <<>>)
       \o OpeningTagsIn(Tail(ps))

\* the tags of the open-tag queue, each as it would be written
QueuedTags(q) == [n \in 1..Len(q) |-> <<"<">> \o q[n][1] \o q[n][2] \o <<">">>]

\* a queued tag that is neither void nor self-closed
IsClosableEntry(e) ==
  /\ ~isVoidTag(e[1])
  /\ ~(e[2] # <<>> /\ e[2][Len(e[2])] = "/")

\* C16: a step that writes an opening tag that is neither void nor
\* self-closed writes text or an explicit closing tag behind it (or raises
\* at that closing tag); the opening tags written, followed by those still
\* queued, are the opening tags scanned so far, in document order and each
\* once, so that a tag left in the queue at the return is not in the output.
C16_ClosableWrittenWhenNeeded ==
  [][ /\ \A n \in 1..Len(NewPieces) :
           (NewPieces[n].k = "open" /\ ~isVoidTag(NewPieces[n].t)
              /\ NewPieces[n].s[Len(NewPieces[n].s) - 1] # "/")
           => \/ pc' = "error"
              \/ \E m \in (n + 1)..Len(NewPieces) :
                    NewPieces[m].k \in {"text", "close"}
      /\ OpeningTagsIn(IF pc' = "done" THEN ret' ELSE result')
            \o QueuedTags(openedQueue') = OpeningTagsOf(SubSeq(chars, 1, i')) ]_vars

\* C16 witness: a returned string with an opening tag that requires closing,
\* and another such tag left in the queue
C16_Witness ==
  /\ pc = "done"
  /\ \E n \in 1..Len(ret) : ret[n].k = "open" /\ IsClosableEntry(<<ret[n].t, <<>>>>)
                             /\ ret[n].s[Len(ret[n].s) - 1] # "/"
  /\ \E n \in 1..Len(openedQueue) : IsClosableEntry(openedQueue[n])

\* C17 as stated: when html_substring returns, no void or self-closed tag is
\* left in the open-tag queue: finalization has written every one of them,
\* wherever it stood in the queue.
C17_AllVoidWritten ==
  pc = "done" => \A n \in 1..Len(openedQueue) : IsClosableEntry(openedQueue[n])

\* the number of void or self-closed tags at the front of a queue, up to the
\* first tag that is neither
RECURSIVE VoidPrefixLen(_)
VoidPrefixLen(q) ==
  IF q = <<>> THEN 0
  ELSE IF IsClosableEntry(Head(q)) THEN 0
       ELSE 1 + VoidPrefixLen(Tail(q))

\* C17 as amended: finalization writes the void or self-closed tags at the
\* front of the open-tag queue, up to the first tag that is neither; the tags
\* behind that one are written only if the last word flush writes text,
\* which writes the whole queue, and are left in the queue otherwise.
C17_VoidPrefixWritten ==
  [][ pc' = "done" =>
        LET n == VoidPrefixLen(openedQueue)
        IN /\ Len(NewPieces) >= n
           /\ OpeningTagsIn(SubSeq(NewPieces, 1, n))
                 = SubSeq(QueuedTags(openedQueue), 1, n)
           /\ IF \E m \in 1..Len(NewPieces) : NewPieces[m].k = "text"
              THEN /\ openedQueue' = <<>>
                   /\ OpeningTagsIn(NewPieces) = QueuedTags(openedQueue)
              ELSE /\ openedQueue' = SubSeq(openedQueue, n + 1, Len(openedQueue))
                   /\ Len(NewPieces) = n ]_vars

\* C17 witness: finalization has written the void tag at the front of the
\* queue and left a void or self-closed tag behind a tag that is neither
C17_Witness ==
  /\ pc = "done"
  /\ Len(ret) = 1
  /\ ret[1].k = "open"
  /\ Len(openedQueue) > 1
  /\ \E n \in 2..Len(openedQueue) : ~IsClosableEntry(openedQueue[n])

\* C18: at an '&' that begins no entity reference (whitespace or the end of
\* the input comes before a ';') only the '&' is written, it counts as one
\* visible character, and the scan goes on right behind the '&', so that the
\* characters that follow it are scanned as text.
C18_AmpRewinds ==
  [][ (InLoop /\ At(i) = "&" /\ ~IsEntityAt(i)) =>
        /\ Flatten(result') = Flatten(result) \o <<"&">>
        /\ current' = current + 1
        /\ i' = i + 1 ]_vars

\* C19: the call terminates, returning a string or raising the error: every
\* iteration of the main loop moves the cursor i forward, also when a failed
\* opening-tag scan or a rejected entity reference rewinds it, no inner loop
\* runs on past the end of the input, and the call reaches its end.
C19_Terminates ==
  /\ [][InLoop => (i' > i /\ pc' # "hang")]_vars
  /\ <>(pc \in {"done", "error"})

\* C19 witness: the call has returned after an opening-tag scan failed and
\* rewound the cursor, the '<' written as text
C19_Witness ==
  /\ pc = "done"
  /\ \E n \in 1..Len(ret) : ret[n].k = "text" /\ ret[n].s = <<"<">>

\* the closing tags of the queued opening tags that require closing, in the
\* order of the queue
RECURSIVE ClosingsOwedBy(_)
ClosingsOwedBy(q) ==
  IF q = <<>> THEN <<>>
  ELSE (IF IsClosableEntry(Head(q)) /\ ~isOptionalVoidTag(Head(q)[1])
        THEN <<ClosingOf(Head(q)[1])>> ELSE <<>>)
       \o ClosingsOwedBy(Tail(q))

\* the highest position of entry e in a stack, 0 if there is none
TopmostAt(cq, e) ==
  IF \E n \in 1..Len(cq) : cq[n] = e
  THEN CHOOSE n \in 1..Len(cq) :
         cq[n] = e /\ \A m \in (n + 1)..Len(cq) : cq[m] # e
  ELSE 0

\* what the closing tag at the cursor does to the stack cq: nothing for a
\* void element or li; for an element that requires closing with a match on
\* cq, the topmost match and every entry above it go; and the closing tag is
\* the last thing written
ClosesOn(cq) ==
  LET name == CloseNameAt(i)
      top == TopmostAt(cq, ClosingOf(name))
      written == /\ result' # <<>>
                 /\ result'[Len(result')] = Piece("close", ClosingOf(name), name)
  IN /\ name \in (voidHtmlTags \cup optionalVoidHtmlTags) =>
          /\ pc' # "error"
          /\ closeQueue' = cq
          /\ written
     /\ (name \notin (voidHtmlTags \cup optionalVoidHtmlTags) /\ top # 0) =>
          /\ pc' # "error"
          /\ closeQueue' = SubSeq(cq, 1, top - 1)
          /\ written

\* C20 as stated: the closing tag of a void element or of li raises no error
\* and leaves the close-tag stack as the step found it; the closing tag of an
\* element that requires closing, with a match on the stack, removes the
\* match and every entry above it; either way the closing tag is written.
C20_StackAsFound == [][AtClosingTag => ClosesOn(closeQueue)]_vars

\* C20 as amended: the same of the stack as it is once the step has written
\* the opening tags still queued, the closing tags of those that require
\* closing pushed on it: the closing tag of a void element or of li pops
\* nothing from it.
C20_StackOnceQueueWritten ==
  [][AtClosingTag => ClosesOn(closeQueue \o ClosingsOwedBy(openedQueue))]_vars

\* C20 witness: '</li>' written right behind an opening tag that the same
\* step took from the queue, its closing tag on the stack
C20_Witness ==
  /\ pc = "loop"
  /\ Len(result) >= 2
  /\ result[Len(result)] = Piece("close", ClosingOf(<<"l", "i">>), <<"l", "i">>)
  /\ IsClosableOpen(result[Len(result) - 1])
  /\ closeQueue # <<>>

====
